---- MODULE Spec2Model ----
(***************************************************************************)
(* Model of codebase_to_docx.CodebaseConverter: construction and          *)
(* validation, file discovery (_get_files / _should_include_file) and      *)
(* document assembly and saving (convert).                                 *)
(*                                                                         *)
(* A character is its code point; a file or directory name is a sequence   *)
(* of code points; a path is a sequence of names (pathlib parts, without   *)
(* the leading "/" anchor every absolute path shares).                     *)
(***************************************************************************)
EXTENDS Integers, Sequences, FiniteSets, TLC

\* ---------------------------------------------------------------------
\* Class-level defaults
\* ---------------------------------------------------------------------
CODE_EXTENSIONS ==
    { <<46, 112, 121>>,   \* .py
      <<46, 106, 115>>,   \* .js
      <<46, 106, 115, 120>>,   \* .jsx
      <<46, 116, 115>>,   \* .ts
      <<46, 116, 115, 120>>,   \* .tsx
      <<46, 106, 97, 118, 97>>,   \* .java
      <<46, 99, 112, 112>>,   \* .cpp
      <<46, 99>>,   \* .c
      <<46, 104>>,   \* .h
      <<46, 99, 115>>,   \* .cs
      <<46, 114, 98>>,   \* .rb
      <<46, 103, 111>>,   \* .go
      <<46, 114, 115>>,   \* .rs
      <<46, 112, 104, 112>>,   \* .php
      <<46, 115, 119, 105, 102, 116>>,   \* .swift
      <<46, 107, 116>>,   \* .kt
      <<46, 115, 99, 97, 108, 97>>,   \* .scala
      <<46, 104, 116, 109, 108>>,   \* .html
      <<46, 99, 115, 115>>,   \* .css
      <<46, 115, 99, 115, 115>>,   \* .scss
      <<46, 115, 97, 115, 115>>,   \* .sass
      <<46, 108, 101, 115, 115>>,   \* .less
      <<46, 120, 109, 108>>,   \* .xml
      <<46, 106, 115, 111, 110>>,   \* .json
      <<46, 121, 97, 109, 108>>,   \* .yaml
      <<46, 121, 109, 108>>,   \* .yml
      <<46, 109, 100>>,   \* .md
      <<46, 116, 120, 116>>,   \* .txt
      <<46, 115, 104>>,   \* .sh
      <<46, 98, 97, 115, 104>>,   \* .bash
      <<46, 115, 113, 108>>,   \* .sql
      <<46, 114>> }   \* .r

IGNORE_DIRS ==
    { <<95, 95, 112, 121, 99, 97, 99, 104, 101, 95, 95>>,   \* __pycache__
      <<110, 111, 100, 101, 95, 109, 111, 100, 117, 108, 101, 115>>,   \* node_modules
      <<46, 103, 105, 116>>,   \* .git
      <<46, 118, 101, 110, 118>>,   \* .venv
      <<118, 101, 110, 118>>,   \* venv
      <<101, 110, 118>>,   \* env
      <<98, 117, 105, 108, 100>>,   \* build
      <<100, 105, 115, 116>>,   \* dist
      <<46, 105, 100, 101, 97>>,   \* .idea
      <<46, 118, 115, 99, 111, 100, 101>>,   \* .vscode
      <<116, 97, 114, 103, 101, 116>>,   \* target
      <<46, 103, 114, 97, 100, 108, 101>>,   \* .gradle
      <<98, 105, 110>>,   \* bin
      <<111, 98, 106>>,   \* obj
      <<99, 111, 118, 101, 114, 97, 103, 101>> }   \* coverage

\* ---------------------------------------------------------------------
\* Names used by the bounded file trees
\* ---------------------------------------------------------------------
n_a == <<97>>   \* a
n_b == <<98>>   \* b
n_x == <<120>>   \* x
n_build == <<98, 117, 105, 108, 100>>   \* build
n_home == <<104, 111, 109, 101>>   \* home
n_proj == <<112, 114, 111, 106>>   \* proj
n_a_py == <<97, 46, 112, 121>>   \* a.py
n_z_py == <<122, 46, 112, 121>>   \* z.py
n_c_py == <<99, 46, 112, 121>>   \* c.py
n_FOO_PY == <<70, 79, 79, 46, 80, 89>>   \* FOO.PY
n_n_txt == <<110, 46, 116, 120, 116>>   \* n.txt
n_dot_py == <<46, 112, 121>>   \* .py
e_py == <<46, 112, 121>>   \* .py
e_txt == <<46, 116, 120, 116>>   \* .txt

\* ---------------------------------------------------------------------
\* Bounds of the explored inputs
\* ---------------------------------------------------------------------
MaxFiles == 3

\* Resolved locations of the root: one with no ignored name above it, one
\* below a directory called "build".
RootPaths == { <<n_home, n_proj>>, <<n_home, n_build, n_proj>> }

\* Files a tree may hold, as paths relative to the root.
TreeFiles ==
    { <<n_a_py>>,                  \* a.py
      <<n_a, n_z_py>>,             \* a/z.py
      <<n_b, n_build, n_c_py>>,    \* b/build/c.py
      <<n_build, n_b, n_c_py>>,    \* build/b/c.py
      <<n_b, n_FOO_PY>>,           \* b/FOO.PY
      <<n_x, n_c_py>>,             \* x/c.py
      <<n_n_txt>>,                 \* n.txt
      <<n_dot_py>> }               \* .py (a hidden file without suffix)

\* The smaller family of trees used when the whole conversion is explored.
ConvertTreeFiles ==
    { <<n_a_py>>, <<n_a, n_z_py>>, <<n_b, n_build, n_c_py>>,
      <<n_b, n_FOO_PY>>, <<n_n_txt>> }

Trees(cands) == { t \in SUBSET cands : Cardinality(t) <= MaxFiles }

\* An optional argument: not given (None) or given with a value.
NoArg == [given |-> FALSE, val |-> {}]
Given(v) == [given |-> TRUE, val |-> v]

IgnoreArgs == { NoArg, Given({}), Given({n_x}) }
ExtensionArgs == { NoArg, Given({}), Given({e_py}), Given({e_txt}) }
ReadOutcomes == { "ok", "EACCES" }

\* ---------------------------------------------------------------------
\* Strings and paths
\* ---------------------------------------------------------------------
Range(s) == { s[i] : i \in 1..Len(s) }

Perms(S) ==
    { s \in [1..Cardinality(S) -> S] : \A i, j \in 1..Cardinality(S) : i # j => s[i] # s[j] }

\* str.lower() on ASCII text
LowerChar(c) == IF c >= 65 /\ c <= 90 THEN c + 32 ELSE c
Lower(s) == [i \in 1..Len(s) |-> LowerChar(s[i])]

\* str.rfind("."): the last index holding a dot, 0 when there is none
RFindDot(name) ==
    LET dots == { i \in 1..Len(name) : name[i] = 46 }
    IN IF dots = {} THEN 0 ELSE CHOOSE i \in dots : \A j \in dots : j <= i

\* PurePath.suffix: the text from the last dot on, unless the dot leads or
\* ends the name
Suffix(name) ==
    LET i == RFindDot(name)
    IN IF 1 < i /\ i < Len(name) THEN SubSeq(name, i, Len(name)) ELSE <<>>

\* PurePath.name
Name(path) == path[Len(path)]

\* PurePath.parents, as the names of the ancestors of the path
ParentNames(path) == { path[i] : i \in 1..(Len(path) - 1) }

\* PurePath.relative_to(root)
RelativeTo(path, root) == SubSeq(path, Len(root) + 1, Len(path))

\* str < str: comparison by code point, a proper prefix being smaller
StrLess(s, t) ==
    \E i \in 1..Len(t) :
        /\ i - 1 <= Len(s)
        /\ \A j \in 1..(i - 1) : s[j] = t[j]
        /\ (i > Len(s) \/ s[i] < t[i])

\* PurePath.__lt__: comparison of the lists of parts
PathLess(p, q) ==
    \E i \in 1..Len(q) :
        /\ i - 1 <= Len(p)
        /\ \A j \in 1..(i - 1) : p[j] = q[j]
        /\ (i > Len(p) \/ StrLess(p[i], q[i]))

\* str(path) of an absolute path: every part preceded by "/"
RECURSIVE PathStr(_)
PathStr(p) == IF p = <<>> THEN <<>> ELSE <<47>> \o Head(p) \o PathStr(Tail(p))

\* str(path) of a relative path: the parts joined by "/"
RelPathStr(p) == IF p = <<>> THEN <<46>> ELSE Tail(PathStr(p))

\* sorted(files): a stable sort by PurePath.__lt__
RECURSIVE Insert(_, _)
Insert(p, s) ==
    IF s = <<>> THEN <<p>>
    ELSE IF PathLess(p, Head(s)) THEN <<p>> \o s
    ELSE <<Head(s)>> \o Insert(p, Tail(s))

\* a _get_files that returns the list as the walk produced it
UnsortedList(s) == s

RECURSIVE SortedList(_)
SortedList(s) ==
    IF s = <<>> THEN <<>>
    ELSE Insert(s[Len(s)], SortedList(SubSeq(s, 1, Len(s) - 1)))

\* ---------------------------------------------------------------------
\* State
\* ---------------------------------------------------------------------
VARIABLES
    codebase_path,           \* the resolved root path
    root_kind,               \* what the file system holds there: "missing", "file", "dir"
    fs_files,                \* the files below the root, relative to it
    arg_ignore_dirs,         \* the ignore_dirs argument
    arg_include_extensions,  \* the include_extensions argument
    include_toc,
    include_file_paths,
    has_callback,            \* whether convert is given a progress_callback
    ignore_dirs,             \* self.ignore_dirs
    include_extensions,      \* self.include_extensions
    pc,
    walk_stack,              \* directories os.walk still has to list
    visited,                 \* directories os.walk has listed
    files,                   \* the files list of _get_files / convert
    doc,                     \* the blocks of the document, in order
    idx,                     \* the loop index of convert
    hook_calls,              \* the calls made to progress_callback
    read_log,                \* the open() attempts of _add_file_content
    output_file,             \* the saved document, <<>> while nothing is written
    save_count,
    result                   \* what the call returned or raised

vars ==
    << codebase_path, root_kind, fs_files, arg_ignore_dirs, arg_include_extensions,
       include_toc, include_file_paths, has_callback, ignore_dirs, include_extensions,
       pc, walk_stack, visited, files, doc, idx, hook_calls, read_log, output_file,
       save_count, result >>

fs_vars == << codebase_path, root_kind, fs_files >>
arg_vars == << arg_ignore_dirs, arg_include_extensions, include_toc, include_file_paths, has_callback >>
self_vars == << ignore_dirs, include_extensions >>
walk_vars == << walk_stack, visited, files >>
doc_vars == << doc, idx, hook_calls, read_log >>
out_vars == << output_file, save_count >>

\* ---------------------------------------------------------------------
\* The file tree
\* ---------------------------------------------------------------------
IsPrefix(d, f) == Len(d) <= Len(f) /\ SubSeq(f, 1, Len(d)) = d

\* the names os.walk reports for the directory at the absolute path top
SubdirNames(top) ==
    LET d == RelativeTo(top, codebase_path)
    IN { f[Len(d) + 1] : f \in { g \in fs_files : IsPrefix(d, g) /\ Len(g) > Len(d) + 1 } }

FileNames(top) ==
    LET d == RelativeTo(top, codebase_path)
    IN { f[Len(d) + 1] : f \in { g \in fs_files : IsPrefix(d, g) /\ Len(g) = Len(d) + 1 } }

\* ---------------------------------------------------------------------
\* Construction
\* ---------------------------------------------------------------------
InitCommon ==
    /\ ignore_dirs = {}
    /\ include_extensions = {}
    /\ pc = "start"
    /\ walk_stack = <<>>
    /\ visited = {}
    /\ files = <<>>
    /\ doc = <<>>
    /\ idx = 0
    /\ hook_calls = <<>>
    /\ read_log = <<>>
    /\ output_file = <<>>
    /\ save_count = 0
    /\ result = "none"

InitFs(cands) ==
    /\ codebase_path \in RootPaths
    /\ root_kind \in { "missing", "file", "dir" }
    /\ fs_files \in Trees(cands)
    /\ (root_kind # "dir" => fs_files = {})

InitDiscovery ==
    /\ InitFs(TreeFiles)
    /\ arg_ignore_dirs \in IgnoreArgs
    /\ arg_include_extensions \in ExtensionArgs
    /\ include_toc = TRUE
    /\ include_file_paths = TRUE
    /\ has_callback = FALSE
    /\ InitCommon

Init ==
    /\ InitFs(ConvertTreeFiles)
    /\ arg_ignore_dirs = NoArg
    /\ arg_include_extensions \in { NoArg, Given({e_py}) }
    /\ include_toc \in BOOLEAN
    /\ include_file_paths \in BOOLEAN
    /\ has_callback \in BOOLEAN
    /\ InitCommon

\* a constructor that lets the additions replace the defaults
ReplacedIgnoreDirs(arg) ==
    IF arg.given /\ arg.val # {} THEN arg.val ELSE IGNORE_DIRS

\* self.ignore_dirs after lines 67-69
EffectiveIgnoreDirs(arg) ==
    IF arg.given /\ arg.val # {} THEN IGNORE_DIRS \cup arg.val ELSE IGNORE_DIRS

\* self.include_extensions after line 72: "include_extensions or CODE_EXTENSIONS"
EffectiveExtensions(arg) ==
    IF arg.given /\ arg.val # {} THEN arg.val ELSE CODE_EXTENSIONS

\* a validation that only tests exists()
ValidationErrorExistsOnly(kind) ==
    IF kind = "missing" THEN "ValueError_does_not_exist" ELSE "none"

\* the validation of lines 75-78: "none" when the root is accepted
ValidationError(kind) ==
    IF kind = "missing" THEN "ValueError_does_not_exist"
    ELSE IF kind # "dir" THEN "ValueError_not_a_directory"
    ELSE "none"

\* CodebaseConverter.__init__
Construct ==
    /\ pc = "start"
    /\ ignore_dirs' = EffectiveIgnoreDirs(arg_ignore_dirs)
    /\ include_extensions' = EffectiveExtensions(arg_include_extensions)
    /\ result' = ValidationError(root_kind)
    /\ pc' = IF ValidationError(root_kind) = "none" THEN "constructed" ELSE "failed"
    /\ UNCHANGED << fs_vars, arg_vars, walk_vars, doc_vars, out_vars >>

\* ---------------------------------------------------------------------
\* Discovery
\* ---------------------------------------------------------------------
\* CodebaseConverter._should_include_file
ShouldIncludeFile(file_path) ==
    /\ Lower(Suffix(Name(file_path))) \in include_extensions
    /\ \A parent \in ParentNames(file_path) : parent \notin ignore_dirs

\* the dirs[:] assignment of line 98
PrunedDirs(dirs) == { d \in dirs : d \notin ignore_dirs }

\* convert calling _get_files, which starts os.walk at the root
GetFilesBegin ==
    /\ pc = "constructed"
    /\ pc' = "walk"
    /\ walk_stack' = << codebase_path >>
    /\ files' = <<>>
    /\ UNCHANGED << fs_vars, arg_vars, self_vars, visited, doc_vars, out_vars, result >>

\* One iteration of the os.walk loop: a directory is listed, in whatever
\* order the file system reports its entries; the ignored subdirectories are
\* pruned and the accepted files appended.  The iteration that exhausts the
\* walk returns sorted(files).
WalkStep ==
    /\ pc = "walk"
    /\ walk_stack # <<>>
    /\ LET top == Head(walk_stack)
       IN \E dorder \in Perms(PrunedDirs(SubdirNames(top))), forder \in Perms(FileNames(top)) :
            LET cands == [i \in 1..Len(forder) |-> top \o << forder[i] >>]
                found == files \o SelectSeq(cands, ShouldIncludeFile)
                stack == [i \in 1..Len(dorder) |-> top \o << dorder[i] >>] \o Tail(walk_stack)
            IN /\ walk_stack' = stack
               /\ visited' = visited \cup { top }
               /\ files' = IF stack = <<>> THEN SortedList(found) ELSE found
               /\ pc' = IF stack = <<>> THEN "scanned" ELSE "walk"
    /\ UNCHANGED << fs_vars, arg_vars, self_vars, doc_vars, out_vars, result >>

NextDiscovery == Construct \/ GetFilesBegin \/ WalkStep

SpecDiscovery == InitDiscovery /\ [][NextDiscovery]_vars

\* ---------------------------------------------------------------------
\* Properties of construction and discovery (SpecDiscovery)
\* ---------------------------------------------------------------------
\* the ignored names the caller configured: the defaults and the additions
ConfiguredIgnored == IGNORE_DIRS \cup arg_ignore_dirs.val

\* the directory names between the root and a file given relative to it
DirsBetween(rel) == { rel[k] : k \in 1..(Len(rel) - 1) }

AbsFiles == { codebase_path \o f : f \in fs_files }

\* C1: discovery never returns a file that has, at any depth between the
\* root and the file, a directory whose name is in the ignored set, also
\* when the directories between the ignored one and the file are not ignored.
C1_IgnoredSubtreesExcluded ==
    \A i \in 1..Len(files) :
        DirsBetween(RelativeTo(files[i], codebase_path)) \cap ConfiguredIgnored = {}

\* A finished discovery of a tree holding b/build/c.py and build/b/c.py (an
\* ignored directory below and above a directory that is not ignored),
\* which pruned build and b/build and did return another file.
C1_Witness ==
    /\ pc = "scanned"
    /\ { <<n_b, n_build, n_c_py>>, <<n_build, n_b, n_c_py>> } \subseteq fs_files
    /\ visited = { codebase_path, codebase_path \o <<n_b>> }
    /\ files # <<>>

\* C2: every file under the root whose lower-cased suffix is in the include
\* set and which has no ignored directory between the root and itself is
\* returned by discovery, wherever the root is located; FOO.PY is returned
\* when .py is included, and a root holding a.py and b/build/c.py yields
\* exactly a.py.
C2_EligibleFilesReturned ==
    pc = "scanned" =>
        /\ \A f \in fs_files :
             ( /\ Lower(Suffix(Name(f))) \in include_extensions
               /\ DirsBetween(f) \cap ignore_dirs = {} )
             => codebase_path \o f \in Range(files)
        /\ ( fs_files = { <<n_a_py>>, <<n_b, n_build, n_c_py>> } /\ e_py \in include_extensions )
             => files = << codebase_path \o <<n_a_py>> >>

\* What discovery does return: the eligible files, provided no directory at
\* or above the root carries an ignored name.
EligibleFilesReturnedBelowCleanRoot ==
    (pc = "scanned" /\ Range(codebase_path) \cap ignore_dirs = {}) =>
        Range(files) =
            { codebase_path \o f : f \in
                { g \in fs_files : /\ Lower(Suffix(Name(g))) \in include_extensions
                                   /\ DirsBetween(g) \cap ignore_dirs = {} } }

NothingReturnedBelowIgnoredRoot ==
    (pc = "scanned" /\ Range(codebase_path) \cap ignore_dirs # {}) => files = <<>>

\* C3 as stated: the returned list holds no path twice and ascends in the
\* order of the paths taken as character strings.
C3_SortedAsStrings ==
    pc = "scanned" =>
        \A i, j \in 1..Len(files) : i < j => StrLess(PathStr(files[i]), PathStr(files[j]))

\* C3 amended: the returned list holds no path twice and ascends in the
\* order of the paths compared part by part (name by name, each name as a
\* character string); relative and full paths give the same order.
C3_SortedByParts ==
    pc = "scanned" =>
        \A i, j \in 1..Len(files) : i < j =>
            /\ PathLess(files[i], files[j])
            /\ PathLess(RelativeTo(files[i], codebase_path), RelativeTo(files[j], codebase_path))

\* A discovery that returned a/z.py before a.py: the two orders differ.
C3_Witness ==
    /\ pc = "scanned"
    /\ \E i \in 1..Len(files) : \E j \in 1..Len(files) :
         /\ i < j
         /\ files[i] = codebase_path \o <<n_a, n_z_py>>
         /\ files[j] = codebase_path \o <<n_a_py>>

\* C4: after construction the ignored set is the defaults united with the
\* additions, and the extension set is exactly the override whenever one is
\* given (any set) and the defaults only when none is given.
C4_EffectiveSets ==
    pc # "start" =>
        /\ ignore_dirs = IGNORE_DIRS \cup arg_ignore_dirs.val
        /\ include_extensions =
             IF arg_include_extensions.given THEN arg_include_extensions.val
             ELSE CODE_EXTENSIONS

\* ---------------------------------------------------------------------
\* Document assembly
\* ---------------------------------------------------------------------
\* A block of the document: what python-docx was asked to add.
Blk(kind, tag, path, n, s) == [kind |-> kind, tag |-> tag, path |-> path, n |-> n, s |-> s]

PageBreak == Blk("page_break", "", <<>>, 0, "")

\* lines 189-192: the title heading, the file-count line and a page break
TitleBlocks(fs) ==
    << Blk("heading0", "codebase_name", << Name(codebase_path) >>, 0, ""),
       Blk("paragraph", "total_files", <<>>, Len(fs), ""),
       PageBreak >>

\* a table of contents that lists str(file_path) instead of the relative path
TocBlocksAbsolute(fs) ==
    << Blk("heading1", "toc_title", <<>>, 0, "") >>
    \o [i \in 1..Len(fs) |-> Blk("list_bullet", "rel_path", PathStr(fs[i]), 0, "")]
    \o << PageBreak >>

\* CodebaseConverter._add_table_of_contents
TocBlocks(fs) ==
    << Blk("heading1", "toc_title", <<>>, 0, "") >>
    \o [i \in 1..Len(fs) |->
          Blk("list_bullet", "rel_path", RelPathStr(RelativeTo(fs[i], codebase_path)), 0, "")]
    \o << PageBreak >>

\* an _add_file_content whose except clause adds nothing
FileBlocksSilent(file_path, outcome) ==
    << Blk("heading1", "rel_path", RelPathStr(RelativeTo(file_path, codebase_path)), 0, "") >>
    \o (IF include_file_paths
        THEN << Blk("paragraph", "location", PathStr(file_path), 0, "") >>
        ELSE <<>>)
    \o (IF outcome = "ok"
        THEN << Blk("paragraph", "content", PathStr(file_path), 0, "") >>
        ELSE <<>>)
    \o << Blk("paragraph", "empty", <<>>, 0, "") >>

\* CodebaseConverter._add_file_content, open() ending in outcome
FileBlocks(file_path, outcome) ==
    << Blk("heading1", "rel_path", RelPathStr(RelativeTo(file_path, codebase_path)), 0, "") >>
    \o (IF include_file_paths
        THEN << Blk("paragraph", "location", PathStr(file_path), 0, "") >>
        ELSE <<>>)
    \o (IF outcome = "ok"
        THEN << Blk("paragraph", "content", PathStr(file_path), 0, "") >>
        ELSE << Blk("paragraph", "error", <<>>, 0, outcome) >>)
    \o << Blk("paragraph", "empty", <<>>, 0, "") >>

\* a callback given the index enumerate would count from 0
HookArgsZeroBased(i, fs) == << i - 1, Len(fs), Name(fs[i]) >>

\* line 201: the arguments of the progress callback for the i-th file
HookArgs(i, fs) == << i, Len(fs), Name(fs[i]) >>

\* a page break after every file, the last included
BreakAfterEvery(i, n) == i <= n

\* line 207: whether a page break follows the i-th of n files
BreakAfter(i, n) == i < n

\* line 199: the for loop runs its body for the i-th file or is exhausted
LoopPc(i, fs) == IF i <= Len(fs) THEN "loop" ELSE "save"

\* a convert without the empty-result check
NeverNothingFound(fs) == FALSE

\* line 175: whether convert gives up on the discovery result
NothingFound(fs) == fs = <<>>

\* convert, lines 175-192: the empty-result check, then the new document
\* with its title block
BeginDocument ==
    /\ pc = "scanned"
    /\ IF NothingFound(files)
       THEN /\ pc' = "failed"
            /\ result' = "ValueError_no_files"
            /\ UNCHANGED << doc, idx >>
       ELSE /\ doc' = TitleBlocks(files)
            /\ idx' = 1
            /\ pc' = IF include_toc THEN "toc" ELSE LoopPc(1, files)
            /\ UNCHANGED result
    /\ UNCHANGED << fs_vars, arg_vars, self_vars, walk_vars, hook_calls, read_log, out_vars >>

\* convert, lines 195-196
AddTableOfContents ==
    /\ pc = "toc"
    /\ doc' = doc \o TocBlocks(files)
    /\ pc' = LoopPc(idx, files)
    /\ UNCHANGED << fs_vars, arg_vars, self_vars, walk_vars, idx, hook_calls, read_log,
                    out_vars, result >>

\* convert, lines 199-201: the head of the loop calls the callback, if any;
\* what the callback raises leaves convert
CallProgress ==
    /\ pc = "loop"
    /\ IF has_callback
       THEN /\ hook_calls' = Append(hook_calls, HookArgs(idx, files))
            /\ \E raises \in BOOLEAN :
                 IF raises
                 THEN pc' = "failed" /\ result' = "callback_error"
                 ELSE pc' = "body" /\ UNCHANGED result
       ELSE /\ pc' = "body"
            /\ UNCHANGED << hook_calls, result >>
    /\ UNCHANGED << fs_vars, arg_vars, self_vars, walk_vars, doc, idx, read_log, out_vars >>

\* convert, lines 203-208: the file's section, then the page break between
\* files
AddFileContent ==
    /\ pc = "body"
    /\ \E outcome \in ReadOutcomes :
         /\ read_log' = Append(read_log, [path |-> files[idx], outcome |-> outcome])
         /\ doc' = doc \o FileBlocks(files[idx], outcome)
                       \o (IF BreakAfter(idx, Len(files)) THEN << PageBreak >> ELSE <<>>)
    /\ idx' = idx + 1
    /\ pc' = LoopPc(idx + 1, files)
    /\ UNCHANGED << fs_vars, arg_vars, self_vars, walk_vars, hook_calls, out_vars, result >>

\* convert, lines 211-214: doc.save writes the file or raises
Save ==
    /\ pc = "save"
    /\ \E written \in BOOLEAN :
         IF written
         THEN /\ output_file' = doc
              /\ save_count' = save_count + 1
              /\ pc' = "done"
              /\ result' = "output_path"
         ELSE /\ pc' = "failed"
              /\ result' = "save_error"
              /\ UNCHANGED out_vars
    /\ UNCHANGED << fs_vars, arg_vars, self_vars, walk_vars, doc_vars >>

Next ==
    \/ Construct
    \/ GetFilesBegin
    \/ WalkStep
    \/ BeginDocument
    \/ AddTableOfContents
    \/ CallProgress
    \/ AddFileContent
    \/ Save

Spec == Init /\ [][Next]_vars

\* ---------------------------------------------------------------------
\* Properties of the conversion (Spec)
\* ---------------------------------------------------------------------
\* the indices of the blocks of the document of a kind and tag
BlockIdx(kind, tag) == { k \in 1..Len(doc) : doc[k].kind = kind /\ doc[k].tag = tag }

\* the i-th smallest member of a set of indices
Nth(S, i) == CHOOSE k \in S : Cardinality({ m \in S : m < k }) = i - 1

HeadingIdx == BlockIdx("heading1", "rel_path")
TocEntryIdx == BlockIdx("list_bullet", "rel_path")
BodyIdx == BlockIdx("paragraph", "content") \cup BlockIdx("paragraph", "error")
SpacerIdx == BlockIdx("paragraph", "empty")
BreakIdx == { k \in 1..Len(doc) : doc[k].kind = "page_break" }

\* the relative paths of the discovery result, as the document shows them
RelPaths == [i \in 1..Len(files) |-> RelPathStr(RelativeTo(files[i], codebase_path))]

NothingBuiltOrWritten ==
    /\ doc = <<>>
    /\ hook_calls = <<>>
    /\ read_log = <<>>
    /\ output_file = <<>>
    /\ save_count = 0

\* C5: when the root does not exist or is not a directory, construction
\* fails with a validation error before any directory is scanned, any
\* document is assembled and any output is written.
C5_InvalidRootFailsFirst ==
    (root_kind # "dir" /\ pc # "start") =>
        /\ pc = "failed"
        /\ result = (IF root_kind = "missing" THEN "ValueError_does_not_exist"
                     ELSE "ValueError_not_a_directory")
        /\ walk_stack = <<>> /\ visited = {} /\ files = <<>>
        /\ NothingBuiltOrWritten

\* A construction rejected because the root is a file.
C5_Witness ==
    /\ root_kind = "file"
    /\ pc = "failed"
    /\ result = "ValueError_not_a_directory"

\* C6: when discovery returns no file, convert fails with the empty-result
\* error after discovery and before assembly: no document, no callback
\* call, no output file.
C6_EmptyResultFails ==
    (root_kind = "dir" /\ files = <<>> /\ pc \notin { "start", "constructed", "walk" }) =>
        /\ pc \in { "scanned", "failed" }
        /\ (pc = "failed" => result = "ValueError_no_files")
        /\ visited # {}
        /\ NothingBuiltOrWritten

\* A conversion of a tree that holds files, none of them accepted, which
\* ended in the empty-result error.
C6_Witness ==
    /\ pc = "failed"
    /\ result = "ValueError_no_files"
    /\ fs_files # {}
    /\ has_callback

C8_TocMatchesBody ==
    (include_toc /\ pc \in { "loop", "body", "save", "done" }) =>
        /\ Cardinality(TocEntryIdx) = Len(files)
        /\ \A i \in 1..Len(files) : doc[Nth(TocEntryIdx, i)].path = RelPaths[i]
        /\ \A i \in 1..Cardinality(HeadingIdx) :
             doc[Nth(HeadingIdx, i)].path = doc[Nth(TocEntryIdx, i)].path
        /\ (pc \in { "save", "done" } => Cardinality(HeadingIdx) = Cardinality(TocEntryIdx))
        /\ doc[2].tag = "total_files" /\ doc[2].n = Cardinality(TocEntryIdx)

\* A finished conversion with a table of contents of two entries or more.
C8_Witness ==
    /\ include_toc
    /\ pc = "done"
    /\ Cardinality(TocEntryIdx) >= 2
    /\ Cardinality(HeadingIdx) = Cardinality(TocEntryIdx)

\* C9: a callback given to convert is called once per file in discovery
\* order, the i-th call with (i, N, base name of the i-th file), i from 1,
\* before that file is read and its section added and after the previous
\* section is complete; what the callback raises is not caught by convert.
C9_ProgressCalls ==
    /\ (~has_callback => hook_calls = <<>>)
    /\ has_callback =>
         /\ \A i \in 1..Len(hook_calls) : hook_calls[i] = << i, Len(files), Name(files[i]) >>
         /\ (pc = "body" =>
               /\ Len(hook_calls) = Len(read_log) + 1
               /\ Cardinality(SpacerIdx) = Len(hook_calls) - 1)
         /\ (pc = "loop" => Len(hook_calls) = Len(read_log))
         /\ (pc \in { "save", "done" } => Len(hook_calls) = Len(files))
         /\ (result = "callback_error" =>
               /\ pc = "failed"
               /\ Len(read_log) = Len(hook_calls) - 1
               /\ Cardinality(HeadingIdx) = Len(hook_calls) - 1
               /\ output_file = <<>>)

\* A finished conversion that called the callback for two files or more.
C9_Witness ==
    /\ has_callback
    /\ pc = "done"
    /\ Len(hook_calls) >= 2
    /\ Len(hook_calls) = Len(files)

\* C10: the document is the title heading, the file-count line, a page
\* break, then (with the TOC enabled) the TOC and a page break, then the
\* sections in discovery order, each ending with a blank spacer; one page
\* break stands between two consecutive sections and none after the last,
\* so N files give 1 + (1 with the TOC) + (N - 1) page breaks; the document
\* is saved once, after the last section.
C10_DocumentLayout ==
    /\ save_count <= 1
    /\ (output_file # <<>> => pc = "done")
    /\ pc \in { "save", "done" } =>
         LET N == Len(files)
             first == IF include_toc THEN N + 6 ELSE 4
         IN /\ N >= 1
            /\ doc[1].kind = "heading0"
            /\ doc[2].tag = "total_files"
            /\ doc[3] = PageBreak
            /\ (include_toc =>
                  /\ doc[4].tag = "toc_title"
                  /\ TocEntryIdx = 5..(N + 4)
                  /\ doc[N + 5] = PageBreak)
            /\ (~include_toc => TocEntryIdx = {} /\ BlockIdx("heading1", "toc_title") = {})
            /\ Cardinality(HeadingIdx) = N
            /\ Nth(HeadingIdx, 1) = first
            /\ \A i \in 1..N : doc[Nth(HeadingIdx, i)].path = RelPaths[i]
            /\ \A i \in 2..N :
                 LET h == Nth(HeadingIdx, i)
                 IN /\ doc[h - 1] = PageBreak
                    /\ doc[h - 2].tag = "empty"
                    /\ doc[h - 3].kind # "page_break"
            /\ doc[Len(doc)].tag = "empty"
            /\ Cardinality(BreakIdx) = 1 + (IF include_toc THEN 1 ELSE 0) + (N - 1)
            /\ (pc = "done" => save_count = 1 /\ output_file = doc)

\* A saved document of two sections or more.
C10_Witness ==
    /\ pc = "done"
    /\ save_count = 1
    /\ Len(files) >= 2
    /\ Cardinality(BreakIdx) >= 2
====
